---------------------------- MODULE Spec2Model ----------------------------
(***************************************************************************)
(* A model of mkdocs_plugin_commonmark: the ElementTree renderer for       *)
(* mistletoe tokens (mistletoe_interop.py) and the pieces around it.       *)
(*                                                                         *)
(* Text is a sequence of one-character strings.  A Python text value that  *)
(* may be None, str or markdown.util.AtomicString is a record              *)
(*    [none, atomic, s]                                                    *)
(* An etree.Element is a record [tag, attrib, text, tail, children].       *)
(***************************************************************************)
EXTENDS Integers, Sequences, FiniteSets, TLC

VARIABLES
    ae_el,      \* append_elems: the element `el` being filled
    ae_rest,    \* append_elems: what splice(inner) has not yielded yet
    ae_prev,    \* append_elems: TRUE when `prev` is el's last child; FALSE when prev is None
    ae_buf,     \* append_elems: the local `buf`
    ae_pc,      \* append_elems: "idle" | "loop" | "done"
    ae_el0,     \* the element as it was when append_elems was called
    ae_inner0   \* the argument `inner` as it was when append_elems was called

ae_vars == <<ae_el, ae_rest, ae_prev, ae_buf, ae_pc, ae_el0, ae_inner0>>

VARIABLES
    es_raw,     \* escape_html: the argument `raw`
    es_out,     \* escape_html: the text returned
    es_back,    \* html.unescape of the text returned
    es_pc       \* "idle" | "escaped" | "unescaped"

es_vars == <<es_raw, es_out, es_back, es_pc>>

VARIABLES
    st_output,  \* _convert_from_elem: the text the serializer returned
    st_result,  \* _convert_from_elem: the text returned
    st_pc       \* "idle" | "returned" | "raised"

st_vars == <<st_output, st_result, st_pc>>

VARIABLES
    rd_doc,                 \* the DocumentLazy token handed to r.render
    rd_pc,                  \* "idle" | "rendering" | "done"
    suppress_ptag_stack,    \* ETreeRenderer._suppress_ptag_stack
    footnotes,              \* ETreeRenderer.footnotes
    rd_frames,              \* the render calls and lazy iterators in progress
    rd_yield,               \* the token whose render function has just returned, and
                            \* what it returned
    rd_tree                 \* the root of the ElementTree that render returned

rd_vars ==
    <<rd_doc, rd_pc, suppress_ptag_stack, footnotes, rd_frames, rd_yield, rd_tree>>

VARIABLES
    process,    \* the process-wide values a render touches: block_token._token_types,
                \* span_token._token_types, block_token._root_node,
                \* span_token._root_node and html._charref
    process0,   \* the process-wide values before any render started
    renderer,   \* per render: the attributes of its ETreeRenderer
    docl,       \* per render: the attributes of its DocumentLazy
    rn_pc,      \* per render: how far render(self, config, files) has come
    rn_old,     \* per render: old_block and old_span of a set_state in progress
    rn_seen     \* per render: the process-wide values its steps have read

rn_vars == <<process, process0, renderer, docl, rn_pc, rn_old, rn_seen>>

VARIABLES
    lz_log,     \* the methods called on a DocumentLazy so far
    lz_raised   \* what the last call raised: "" when it returned

lz_vars == <<lz_log, lz_raised>>

VARIABLES
    Page_render,        \* mkdocs' Page.render
    original_render,    \* CommonMark.original_render of the plugin instance
    pl_original,        \* the method Page had before the first on_pre_build
    pl_log              \* the events the plugin has handled so far

pl_vars == <<Page_render, original_render, pl_original, pl_log>>

vars == <<ae_vars, es_vars, st_vars, rd_vars, rn_vars, lz_vars, pl_vars>>

\* what each part of the program leaves alone
ae_others == <<es_vars, st_vars, rd_vars, rn_vars, lz_vars, pl_vars>>
es_others == <<ae_vars, st_vars, rd_vars, rn_vars, lz_vars, pl_vars>>
st_others == <<ae_vars, es_vars, rd_vars, rn_vars, lz_vars, pl_vars>>
rd_others == <<ae_vars, es_vars, st_vars, rn_vars, lz_vars, pl_vars>>
rn_others == <<ae_vars, es_vars, st_vars, rd_vars, pl_vars>>
pl_others == <<ae_vars, es_vars, st_vars, rd_vars, rn_vars, lz_vars>>

-----------------------------------------------------------------------------
(* Text values *)

None == [none |-> TRUE, atomic |-> FALSE, s |-> <<>>]

Str(s) == [none |-> FALSE, atomic |-> FALSE, s |-> s]

AtomicString(s) == [none |-> FALSE, atomic |-> TRUE, s |-> s]

Min(S) == CHOOSE x \in S : \A y \in S : x <= y
Max(S) == CHOOSE x \in S : \A y \in S : y <= x

\* Python truthiness of a text value: None and '' are falsy
Truthy(a) == ~a.none /\ a.s # <<>>

\* safe_concat(a, b): AtomicString(a + b) when a is an AtomicString,
\* otherwise (a or '') + b, which is a plain str whatever b is.
safe_concat(a, b) ==
    IF a.atomic THEN AtomicString(a.s \o b.s) ELSE Str(a.s \o b.s)

\* buf += t, where buf is a plain str: str.__add__ returns a plain str
\* also when t is an AtomicString.
BufAdd(buf, t) == Str(buf.s \o t.s)

-----------------------------------------------------------------------------
(* The parts of the program a specification leaves out stay as they are here *)

AeIdle ==
    /\ ae_el = None /\ ae_el0 = None /\ ae_inner0 = <<>> /\ ae_rest = <<>>
    /\ ae_prev = FALSE /\ ae_buf = None /\ ae_pc = "off"

EsIdle == es_raw = <<>> /\ es_out = <<>> /\ es_back = <<>> /\ es_pc = "off"

StIdle == st_output = <<>> /\ st_result = <<>> /\ st_pc = "off"

RdIdle ==
    /\ rd_doc = None /\ rd_pc = "off" /\ suppress_ptag_stack = <<FALSE>>
    /\ footnotes = {} /\ rd_frames = <<>> /\ rd_yield = None /\ rd_tree = None

RnIdle ==
    /\ process = None /\ process0 = None /\ renderer = <<>> /\ docl = <<>>
    /\ rn_pc = <<>> /\ rn_old = <<>> /\ rn_seen = <<>>

LzIdle == lz_log = <<>> /\ lz_raised = ""

PlIdle ==
    /\ Page_render = <<>> /\ original_render = <<>> /\ pl_original = <<>>
    /\ pl_log = <<>>

-----------------------------------------------------------------------------
(* Elements *)

Element(tag, attrib) ==
    [tag |-> tag, attrib |-> attrib, text |-> None, tail |-> None, children |-> <<>>]

\* the items handed to append_elems: a text fragment, a node, a nested iterable
TextItem(v) == [t |-> "text", v |-> v]
NodeItem(n) == [t |-> "node", n |-> n]
SeqItem(q) == [t |-> "seq", items |-> q]

\* splice(x): the depth-first flattening of nested iterables; strings and
\* Elements are yielded as they are.
RECURSIVE splice(_)
splice(x) ==
    IF x.t = "seq"
    THEN IF x.items = <<>> THEN <<>>
         ELSE splice(Head(x.items)) \o splice(SeqItem(Tail(x.items)))
    ELSE <<x>>

\* the flush of buf in append_elems (lines 215-220 and 224-228): to el.text when
\* no node was appended by this call, else to the tail of the last one.
ae_flush(el, prev, buf) ==
    IF ~Truthy(buf) THEN el
    ELSE IF ~prev
         THEN [el EXCEPT !.text = safe_concat(el.text, buf)]
         ELSE [el EXCEPT !.children[Len(el.children)].tail =
                            safe_concat(el.children[Len(el.children)].tail, buf)]

\* one iteration of the loop of append_elems on the state <<el, prev, buf>>
ae_step(acc, t) ==
    IF t.t = "text"
    THEN [acc EXCEPT !.buf = BufAdd(acc.buf, t.v)]
    ELSE [el   |-> [ae_flush(acc.el, acc.prev, acc.buf)
                        EXCEPT !.children = Append(@, t.n)],
          prev |-> TRUE,
          buf  |-> Str(<<>>)]

\* the code after the loop
ae_finish(acc) == ae_flush(acc.el, acc.prev, acc.buf)

ae_start(el) == [el |-> el, prev |-> FALSE, buf |-> Str(<<>>)]

RECURSIVE ae_loop(_, _)
ae_loop(acc, ts) ==
    IF ts = <<>> THEN acc ELSE ae_loop(ae_step(acc, Head(ts)), Tail(ts))

\* append_elems(el, inner) as one call
append_elems(el, inner) == ae_finish(ae_loop(ae_start(el), splice(inner)))

-----------------------------------------------------------------------------
(* append_elems called on its own: the element and the items are drawn from   *)
(* bounded sets; the nodes of one call are distinct objects.                 *)

MaxItems == 3

Node(tag, tail) == [Element(tag, {}) EXCEPT !.tail = tail]

AeTexts == {Str(<<"a">>), AtomicString(<<"b">>)}
AeLeaves ==
    {TextItem(v) : v \in AeTexts}
        \cup {NodeItem(Node("n1", None)), NodeItem(Node("n2", Str(<<"t">>))),
              NodeItem(Node("n3", AtomicString(<<"u">>)))}

SeqsUpTo(S, n) == UNION {[1..k -> S] : k \in 0..n}

NodeTags(ts) == {ts[i].n.tag : i \in {j \in 1..Len(ts) : ts[j].t = "node"}}
NodeCount(ts) == Cardinality({j \in 1..Len(ts) : ts[j].t = "node"})

\* the flat sequences of items whose nodes are distinct objects
AeFlat == {f \in SeqsUpTo(AeLeaves, MaxItems) : NodeCount(f) = Cardinality(NodeTags(f))}

\* f with its items i+1..j inside a doubly nested iterable (empty when i = j)
Nested(f, i, j) ==
    SeqItem(SubSeq(f, 1, i)
            \o <<SeqItem(<<SeqItem(SubSeq(f, i + 1, j))>>)>>
            \o SubSeq(f, j + 1, Len(f)))

AeInners ==
    {SeqItem(f) : f \in AeFlat}
        \cup UNION {{Nested(f, i, j) : i \in 0..Len(f), j \in 0..Len(f)} : f \in AeFlat}

AeElements ==
    {[Element("el", {}) EXCEPT !.text = tx, !.children = ch] :
        tx \in {None, Str(<<"x">>), AtomicString(<<"y">>)},
        ch \in {<<>>, <<Node("c0", Str(<<"z">>))>>}}

AeInit ==
    /\ ae_el \in AeElements
    /\ ae_inner0 \in AeInners
    /\ ae_el0 = ae_el
    /\ ae_rest = <<>>
    /\ ae_prev = FALSE
    /\ ae_buf = Str(<<>>)
    /\ ae_pc = "idle"

\* the call: prev = None, buf = '', and splice(inner) is started
AeCall ==
    /\ ae_pc = "idle"
    /\ ae_pc' = "loop"
    /\ ae_rest' = splice(ae_inner0)
    /\ ae_prev' = FALSE
    /\ ae_buf' = Str(<<>>)
    /\ UNCHANGED <<ae_el, ae_el0, ae_inner0, ae_others>>

\* one iteration of `for t in splice(inner)`
AeIterate ==
    /\ ae_pc = "loop"
    /\ ae_rest # <<>>
    /\ LET acc == ae_step([el |-> ae_el, prev |-> ae_prev, buf |-> ae_buf],
                          Head(ae_rest))
       IN /\ ae_el' = acc.el
          /\ ae_prev' = acc.prev
          /\ ae_buf' = acc.buf
    /\ ae_rest' = Tail(ae_rest)
    /\ UNCHANGED <<ae_pc, ae_el0, ae_inner0, ae_others>>

\* the iterator is exhausted: the last flush, and return el
AeReturn ==
    /\ ae_pc = "loop"
    /\ ae_rest = <<>>
    /\ ae_el' = ae_finish([el |-> ae_el, prev |-> ae_prev, buf |-> ae_buf])
    /\ ae_pc' = "done"
    /\ UNCHANGED <<ae_rest, ae_prev, ae_buf, ae_el0, ae_inner0, ae_others>>

AeNext == AeCall \/ AeIterate \/ AeReturn

InitAppend == AeInit /\ EsIdle /\ StIdle /\ RdIdle /\ RnIdle /\ LzIdle /\ PlIdle

SpecAppend == InitAppend /\ [][AeNext]_vars

-----------------------------------------------------------------------------
(* In-order readings, for the statements about append_elems *)

RChar(c) == [ch |-> c, node |-> <<>>]
RNode(n) == [ch |-> "", node |-> <<[n EXCEPT !.tail = None]>>]

Chars(s) == [i \in 1..Len(s) |-> RChar(s[i])]

RECURSIVE ChildrenReading(_)
ChildrenReading(ch) ==
    IF ch = <<>> THEN <<>>
    ELSE <<RNode(Head(ch))>> \o Chars(Head(ch).tail.s) \o ChildrenReading(Tail(ch))

\* el.text, then each child followed by its tail
Reading(el) == Chars(el.text.s) \o ChildrenReading(el.children)

\* the reading of a flattened sequence of fragments and nodes
RECURSIVE ItemsReading(_)
ItemsReading(ts) ==
    IF ts = <<>> THEN <<>>
    ELSE (IF Head(ts).t = "text" THEN Chars(Head(ts).v.s)
          ELSE <<RNode(Head(ts).n)>> \o Chars(Head(ts).n.tail.s))
         \o ItemsReading(Tail(ts))

\* the positions of the nodes in a flattened sequence
NodePositions(ts) == {j \in 1..Len(ts) : ts[j].t = "node"}

\* the text fragments of ts that follow position j up to the next node
\* (j = 0: the fragments before the first node)
RunAfter(ts, j) ==
    {k \in (j + 1)..Len(ts) :
        /\ ts[k].t = "text"
        /\ \A m \in (j + 1)..k : ts[m].t = "text"}

\* C4: after append_elems(el, inner) the in-order reading of el is its reading
\* before the call followed by the depth-first flattening of inner, in order:
\* nothing is dropped, duplicated or reordered, whatever text and children el
\* had before.
C4_ReadingPreserved ==
    ae_pc = "done" =>
        Reading(ae_el) = Reading(ae_el0) \o ItemsReading(splice(ae_inner0))

\* C5: the text or tail that append_elems stores is marked (AtomicString)
\* whenever the text or tail it extends, or one of the fragments appended to it,
\* is marked.
C5_MarkerPreserved ==
    ae_pc = "done" =>
        LET ts == splice(ae_inner0)
            n0 == Len(ae_el0.children)
        IN /\ (ae_el0.text.atomic \/ \E k \in RunAfter(ts, 0) : ts[k].v.atomic)
                  => ae_el.text.atomic
           /\ \A j \in NodePositions(ts) :
                (ts[j].n.tail.atomic \/ \E k \in RunAfter(ts, j) : ts[k].v.atomic)
                  => ae_el.children[n0 + Cardinality({m \in NodePositions(ts) : m <= j})]
                        .tail.atomic

-----------------------------------------------------------------------------
(* Escaper: html.escape, html.unescape with the character-reference pattern  *)
(* that ETreeRenderer.__init__ installs, and escape_html.                    *)

\* s[i..] starts with pat
StartsAt(s, i, pat) ==
    /\ i + Len(pat) - 1 <= Len(s)
    /\ \A k \in 1..Len(pat) : s[i + k - 1] = pat[k]

\* str.replace(pat, rep): the non-overlapping occurrences, left to right
RECURSIVE ReplaceFrom(_, _, _, _)
ReplaceFrom(s, i, pat, rep) ==
    IF i > Len(s) THEN <<>>
    ELSE IF StartsAt(s, i, pat)
         THEN rep \o ReplaceFrom(s, i + Len(pat), pat, rep)
         ELSE <<s[i]>> \o ReplaceFrom(s, i + 1, pat, rep)

Replace(s, pat, rep) == ReplaceFrom(s, 1, pat, rep)

\* html.escape(s), quote = True
html_escape(s) ==
    Replace(Replace(Replace(Replace(Replace(s,
        <<"&">>, <<"&", "a", "m", "p", ";">>),
        <<"<">>, <<"&", "l", "t", ";">>),
        <<">">>, <<"&", "g", "t", ";">>),
        <<"\"">>, <<"&", "q", "u", "o", "t", ";">>),
        <<"'">>, <<"&", "#", "x", "2", "7", ";">>)

\* the longest name the pattern accepts: {1,32}
CharrefMaxName == 32

\* [^\t\n\f <&#;]
NameChar(c) == c \notin {"\t", "\n", "\f", " ", "<", "&", "#", ";"}

\* html.entities.html5, cut down to the names that can be written with the
\* letters a g l m o p q t u of which the texts of this model are made and
\* that the references `&amp;` `&lt;` `&gt;` `&quot;` need; a code point that
\* is not one of the characters of the model is written U+xxxx.
Html5 ==
    [n \in {<<"a", "m", "p">>, <<"a", "m", "p", ";">>, <<"l", "t">>, <<"l", "t", ";">>,
            <<"g", "t">>, <<"g", "t", ";">>, <<"q", "u", "o", "t">>,
            <<"q", "u", "o", "t", ";">>, <<"l", "l", ";">>, <<"g", "g", ";">>,
            <<"g", "l", ";">>, <<"l", "g", ";">>, <<"g", "g", "g", ";">>} |->
        CASE n \in {<<"a", "m", "p">>, <<"a", "m", "p", ";">>} -> <<"&">>
          [] n \in {<<"l", "t">>, <<"l", "t", ";">>} -> <<"<">>
          [] n \in {<<"g", "t">>, <<"g", "t", ";">>} -> <<">">>
          [] n \in {<<"q", "u", "o", "t">>, <<"q", "u", "o", "t", ";">>} -> <<"\"">>
          [] n = <<"l", "l", ";">> -> <<"U+226A">>
          [] n = <<"g", "g", ";">> -> <<"U+226B">>
          [] n = <<"g", "l", ";">> -> <<"U+2277">>
          [] n = <<"l", "g", ";">> -> <<"U+2276">>
          [] n = <<"g", "g", "g", ";">> -> <<"U+22D9">>]

\* html._replace_charref for a named reference s (the text after `&`, with
\* its `;`): the name itself, else the longest known prefix of two characters
\* or more followed by the rest, else the text unchanged.
replace_charref(s) ==
    IF s \in DOMAIN Html5 THEN Html5[s]
    ELSE LET known == {x \in 2..(Len(s) - 1) : SubSeq(s, 1, x) \in DOMAIN Html5}
         IN IF known = {} THEN <<"&">> \o s
            ELSE LET x == CHOOSE y \in known : \A z \in known : z <= y
                 IN Html5[SubSeq(s, 1, x)] \o SubSeq(s, x + 1, Len(s))

\* the end of the match of the pattern &([^\t\n\f <&#;]{1,32};) at s[i] = "&",
\* 0 when it does not match there (the numeric alternatives need a `#`, which
\* no text of this model holds after an `&` left in place)
CharrefEnd(s, i) ==
    LET ends == {j \in (i + 2)..Len(s) :
                    /\ s[j] = ";"
                    /\ j - i - 1 <= CharrefMaxName
                    /\ \A k \in (i + 1)..(j - 1) : NameChar(s[k])}
    IN IF s[i] = "&" /\ ends # {} THEN CHOOSE j \in ends : \A m \in ends : j <= m
       ELSE 0

RECURSIVE UnescapeFrom(_, _)
UnescapeFrom(s, i) ==
    IF i > Len(s) THEN <<>>
    ELSE LET j == CharrefEnd(s, i)
         IN IF j = 0 THEN <<s[i]>> \o UnescapeFrom(s, i + 1)
            ELSE replace_charref(SubSeq(s, i + 1, j)) \o UnescapeFrom(s, j + 1)

\* html.unescape(s): _charref.sub(_replace_charref, s)
html_unescape(s) == UnescapeFrom(s, 1)

\* a variant of escape_html that does not unescape first
escape_html_no_unescape(raw) ==
    Replace(html_escape(raw), <<"&", "#", "x", "2", "7", ";">>, <<"'">>)

\* ETreeRenderer.escape_html(raw)
escape_html(raw) ==
    Replace(html_escape(html_unescape(raw)), <<"&", "#", "x", "2", "7", ";">>, <<"'">>)

-----------------------------------------------------------------------------
(* Tokens.  A mistletoe token is a record with its class name, its children  *)
(* and the attributes the renderer reads; an attribute that may be None is a *)
(* sequence, empty for None.                                                 *)

Token(kind, children) ==
    [kind |-> kind, children |-> children, loose |-> FALSE, start |-> <<>>,
     content |-> <<>>, align |-> <<>>, header |-> <<>>, level |-> 1, soft |-> FALSE,
     target |-> <<>>, title |-> <<>>, mailto |-> FALSE, language |-> <<>>,
     src |-> <<>>, root_tag |-> <<>>, footnotes |-> {}]

RawText(content) == [Token("RawText", <<>>) EXCEPT !.content = content]

\* str(n) for the numbers of this model
ToStr(n) ==
    CASE n = 0 -> <<"0">> [] n = 1 -> <<"1">> [] n = 2 -> <<"2">> [] n = 3 -> <<"3">>
      [] n = 4 -> <<"4">> [] n = 5 -> <<"5">> [] n = 6 -> <<"6">> [] n = 7 -> <<"7">>
      [] n = 8 -> <<"8">> [] n = 9 -> <<"9">>

\* urllib.parse.quote(s, safe='/#:()*?=%@+,&') on the characters of this
\* model: letters, digits, `_.-~` and the safe characters stay, every other
\* character becomes the %XX of its UTF-8 bytes.
QuoteKeep ==
    {"a", "g", "l", "m", "o", "p", "q", "t", "u", "x", "0", "1", "2", "3", "7",
     "_", ".", "-", "~", "/", "#", ":", "(", ")", "*", "?", "=", "%", "@", "+", ",", "&"}

PercentEncoded(c) ==
    CASE c = "<" -> <<"%", "3", "C">>
      [] c = ">" -> <<"%", "3", "E">>
      [] c = "\"" -> <<"%", "2", "2">>
      [] c = "'" -> <<"%", "2", "7">>
      [] c = ";" -> <<"%", "3", "B">>
      [] c = " " -> <<"%", "2", "0">>
      [] c = "U+226A" -> <<"%", "E", "2", "%", "8", "9", "%", "A", "A">>
      [] c = "U+226B" -> <<"%", "E", "2", "%", "8", "9", "%", "A", "B">>
      [] c = "U+2276" -> <<"%", "E", "2", "%", "8", "9", "%", "B", "6">>
      [] c = "U+2277" -> <<"%", "E", "2", "%", "8", "9", "%", "B", "7">>
      [] c = "U+22D9" -> <<"%", "E", "2", "%", "8", "B", "%", "9", "9">>

RECURSIVE quote(_)
quote(s) ==
    IF s = <<>> THEN <<>>
    ELSE (IF Head(s) \in QuoteKeep THEN <<Head(s)>> ELSE PercentEncoded(Head(s)))
         \o quote(Tail(s))

\* ETreeRenderer.escape_url(raw)
escape_url(raw) == html_escape(quote(html_unescape(raw)))

\* ETreeRenderer.render_to_plain(token): a token with children is the
\* concatenation of its children, another one its escaped content
RECURSIVE render_to_plain(_)
RECURSIVE render_to_plain_all(_)
render_to_plain(token) ==
    IF token.kind \in {"RawText", "HTMLSpan", "LineBreak"}
    THEN escape_html(token.content)
    ELSE render_to_plain_all(token.children)
render_to_plain_all(ts) ==
    IF ts = <<>> THEN <<>> ELSE render_to_plain(Head(ts)) \o render_to_plain_all(Tail(ts))

-----------------------------------------------------------------------------
(* The render functions of ETreeRenderer.  A function that ends in           *)
(* append_elems(el, <its children>) is split into the element it creates     *)
(* (XxxElement), what it hands to append_elems around the children, and what *)
(* it does once append_elems has returned.                                   *)

WithText(el, v) == [el EXCEPT !.text = v]
WithTail(el, v) == [el EXCEPT !.tail = v]
WithAttr(el, name, value) == [el EXCEPT !.attrib = @ \cup {<<name, value>>}]
SubElement(parent, child) == [parent EXCEPT !.children = Append(@, child)]

NL == <<"\n">>

\* unsafe_wrap(text): etree.Element('', unsafe=True) with the text
unsafe_wrap(text) ==
    WithText(Element("", {<<"unsafe", <<"T", "r", "u", "e">>>>}), text)

\* append_newline_inside(el)
append_newline_inside(el) ==
    IF el.children # <<>>
    THEN LET n == Len(el.children)
             tl == el.children[n].tail
         IN [el EXCEPT !.children[n].tail =
                IF tl.none THEN AtomicString(NL)
                ELSE IF tl.atomic THEN AtomicString(tl.s \o NL)
                ELSE Str(tl.s \o NL)]
    ELSE IF Truthy(el.text)
         THEN [el EXCEPT !.text = Str(el.text.s \o NL)]
         ELSE el

\* render_html_block(token)
render_html_block(token) == NodeItem(unsafe_wrap(AtomicString(token.content)))

\* a variant of render_html_span that wraps the text
render_html_span_wrapped(token) == NodeItem(unsafe_wrap(AtomicString(token.content)))

\* render_html_span(token)
render_html_span(token) == TextItem(AtomicString(token.content))

\* render_raw_text(token)
render_raw_text(token) == TextItem(AtomicString(escape_html(token.content)))

\* render_line_break(token)
render_line_break(token) ==
    IF token.soft THEN TextItem(AtomicString(NL))
    ELSE NodeItem(WithTail(Element("br", {}), Str(NL)))

\* render_thematic_break(token)
render_thematic_break(token) == NodeItem(Element("hr", {}))

\* render_inline_code(token)
render_inline_code(token) ==
    NodeItem(WithText(Element("code", {}),
        AtomicString(Replace(html_escape(token.children[1].content),
                             <<"&", "#", "x", "2", "7", ";">>, <<"'">>))))

\* render_block_code(token)
render_block_code(token) ==
    LET el_code == Element("code",
                     IF token.language # <<>>
                     THEN {<<"class", <<"l", "a", "n", "g", "u", "a", "g", "e", "-">>
                                        \o escape_html(token.language)>>}
                     ELSE {})
        code_text == Replace(Replace(html_escape(token.children[1].content),
                                <<"&", "#", "x", "2", "7", ";">>, <<"'">>),
                                <<"&", "q", "u", "o", "t", ";">>, <<"\"">>)
    IN NodeItem(SubElement(Element("pre", {}), WithText(el_code, AtomicString(code_text))))

\* the optional title attribute of render_image and render_link
TitleAttr(token) ==
    IF token.title # <<>> THEN {<<"title", escape_html(token.title)>>} ELSE {}

\* render_image(token)
render_image(token) ==
    NodeItem(Element("img",
        {<<"src", token.src>>, <<"alt", render_to_plain(token)>>} \cup TitleAttr(token)))

\* a variant of ListElement: `ol` only when a start attribute is written
ListElementByAttr(token) ==
    WithText(
        IF token.start # <<>> /\ token.start[1] # 1
        THEN Element("ol", {<<"start", ToStr(token.start[1])>>})
        ELSE Element("ul", {}),
        Str(NL))

\* render_list(token), lines 326-333: the element and its first text
ListElement(token) ==
    WithText(
        IF token.start # <<>>
        THEN Element("ol",
                IF token.start[1] # 1 THEN {<<"start", ToStr(token.start[1])>>} ELSE {})
        ELSE Element("ul", {}),
        Str(NL))

\* render_table_cell(token, in_header), lines 393-401
CellElement(token, in_header) ==
    WithTail(Element(IF in_header THEN "th" ELSE "td",
                     IF token.align = <<>> THEN {<<"align", <<"l", "e", "f", "t">>>>}
                     ELSE IF token.align = <<0>> THEN {<<"align", <<"c", "e", "n", "t", "e", "r">>>>}
                     ELSE IF token.align = <<1>> THEN {<<"align", <<"r", "i", "g", "h", "t">>>>}
                     ELSE {}),
             Str(NL))

HeadingTag == <<"h1", "h2", "h3", "h4", "h5", "h6">>

\* the element a render function creates before it calls append_elems
NewElement(token, in_header) ==
    CASE token.kind = "DocumentLazy" ->
            Element(IF token.root_tag # <<>> THEN token.root_tag[1] ELSE "div", {})
      [] token.kind = "Heading" -> Element(HeadingTag[token.level], {})
      [] token.kind = "Paragraph" -> Element("p", {})
      [] token.kind = "Quote" -> WithText(Element("blockquote", {}), Str(NL))
      [] token.kind = "List" -> ListElement(token)
      [] token.kind = "ListItem" -> Element("li", {})
      [] token.kind = "Strong" -> Element("strong", {})
      [] token.kind = "Emphasis" -> Element("em", {})
      [] token.kind = "Strikethrough" -> Element("del", {})
      [] token.kind = "Link" ->
            Element("a", {<<"href", escape_url(token.target)>>} \cup TitleAttr(token))
      [] token.kind = "AutoLink" ->
            Element("a", {<<"href",
                IF token.mailto THEN <<"m", "a", "i", "l", "t", "o", ":">> \o token.target
                ELSE escape_url(token.target)>>})
      [] token.kind = "Table" ->
            WithTail(WithText(Element("tbody", {}), Str(NL)), Str(NL))
      [] token.kind = "TableRow" -> WithTail(WithText(Element("tr", {}), Str(NL)), Str(NL))
      [] token.kind = "TableCell" -> CellElement(token, in_header)

\* render_table(token), lines 368-373: the table and, with a header, its thead
TableElement(token) ==
    LET el == WithText(Element("table", {}), Str(NL))
    IN IF token.header # <<>>
       THEN SubElement(el, WithTail(WithText(Element("thead", {}), Str(NL)), Str(NL)))
       ELSE el

\* render_quote(token), lines 294-295: an empty blockquote holds one newline
quote_collapse(el) ==
    IF el.children = <<>> /\ ~el.text.none /\ el.text.s = NL \o NL
    THEN WithText(el, AtomicString(NL))
    ELSE el

\* a variant of list_item_inner that trims whenever the list is tight
list_item_inner_tight(token, suppress) ==
    [lead |-> ~suppress, trail |-> ~suppress]

\* render_list_item(token), lines 349-357: which of the two '\n' of
\* inner = ['\n', <children>, '\n'] are kept
list_item_inner(token, suppress) ==
    [lead  |-> ~(suppress /\ token.children[1].kind = "Paragraph"),
     trail |-> ~(suppress /\ token.children[Len(token.children)].kind = "Paragraph")]

\* a variant of stack_push in which a blockquote pushes nothing
stack_push_list_only(st, token) ==
    IF token.kind = "List" THEN Append(st, ~token.loose) ELSE st

\* self._suppress_ptag_stack.append(...) of render_list (line 335) and
\* render_quote (line 289); no other render function touches the stack
stack_push(st, token) ==
    CASE token.kind = "List" -> Append(st, ~token.loose)
      [] token.kind = "Quote" -> Append(st, FALSE)
      [] OTHER -> st

\* a variant of stack_pop in which a blockquote leaves its entry behind
stack_pop_list_only(st, token) ==
    IF token.kind = "List" THEN SubSeq(st, 1, Len(st) - 1) ELSE st

\* self._suppress_ptag_stack.pop() of render_list (line 338) and render_quote
\* (line 296)
stack_pop(st, token) ==
    IF token.kind \in {"List", "Quote"} THEN SubSeq(st, 1, Len(st) - 1) ELSE st

-----------------------------------------------------------------------------
(* One render pass: r.render(docl).  render_inner is a lazy map and          *)
(* render_inner_join a generator, so a render function's children are        *)
(* rendered one at a time while its append_elems runs.  rd_frames is the     *)
(* stack of iterations in progress, innermost last:                          *)
(*   mode "elem": a render function inside append_elems(el, <children>),     *)
(*                with append_elems' el, prev and buf;                       *)
(*   mode "lazy": the map that render_paragraph (suppressed) or              *)
(*                render_escape_sequence returned, being spliced by the      *)
(*                append_elems of the nearest "elem" frame below it.         *)
(* i counts the children whose render has been called.                       *)

LeafKinds ==
    {"RawText", "HTMLSpan", "HTMLBlock", "LineBreak", "ThematicBreak", "InlineCode",
     "BlockCode", "CodeFence", "Image"}

\* render(token) returns without iterating the children of token
IsLeaf(token) ==
    token.kind \in LeafKinds \/ (token.kind = "ListItem" /\ token.children = <<>>)

\* render(token) returns the lazy map of its children
IsLazy(token, st) ==
    token.kind = "EscapeSequence" \/ (token.kind = "Paragraph" /\ st[Len(st)])

\* the render functions that return at once (render_map)
RenderLeaf(token) ==
    CASE token.kind = "RawText" -> render_raw_text(token)
      [] token.kind = "HTMLSpan" -> render_html_span(token)
      [] token.kind = "HTMLBlock" -> render_html_block(token)
      [] token.kind = "LineBreak" -> render_line_break(token)
      [] token.kind = "ThematicBreak" -> render_thematic_break(token)
      [] token.kind = "InlineCode" -> render_inline_code(token)
      [] token.kind \in {"BlockCode", "CodeFence"} -> render_block_code(token)
      [] token.kind = "Image" -> render_image(token)
      [] token.kind = "ListItem" -> NodeItem(Element("li", {}))

\* render_inner_join is used by render_document, render_quote, render_list
\* and render_list_item; the other functions use render_inner
Joins(token) == token.kind \in {"DocumentLazy", "Quote", "List", "ListItem"}

NoElement == Element("-", {})

\* the value of a render function that returns the lazy map of its children
LazyItem == [t |-> "lazy"]

NoYield == [token |-> Token("-", <<>>), item |-> [t |-> "none"]]

ElemFrame(token, el, in_header) ==
    [mode |-> "elem", token |-> token, i |-> 0, join |-> Joins(token),
     hdr |-> in_header, el |-> el, prev |-> FALSE, buf |-> Str(<<>>),
     trail |-> FALSE, aux |-> NoElement, phase |-> ""]

LazyFrame(token) ==
    [ElemFrame(token, NoElement, FALSE) EXCEPT !.mode = "lazy", !.join = FALSE]

\* the frame of render_X(token) as its append_elems starts; render_list_item
\* reads the top of the stack to choose what surrounds its children
EnterFrame(token, st, in_header) ==
    CASE token.kind = "ListItem" ->
            LET keep == list_item_inner(token, st[Len(st)])
            IN [ElemFrame(token, NewElement(token, FALSE), FALSE) EXCEPT
                   !.buf = IF keep.lead THEN BufAdd(Str(<<>>), Str(NL)) ELSE Str(<<>>),
                   !.trail = keep.trail]
      [] token.kind = "Table" ->
            [ElemFrame(token, NewElement(token, FALSE), FALSE) EXCEPT
                   !.aux = TableElement(token),
                   !.phase = IF token.header # <<>> THEN "header" ELSE "body"]
      [] token.kind = "TableRow" -> ElemFrame(token, NewElement(token, FALSE), in_header)
      [] OTHER -> ElemFrame(token, NewElement(token, in_header), FALSE)

\* the frames render_X(token) starts with: render_table renders its header
\* row, with is_header = True, before anything else
EnterFrames(token, st, in_header) ==
    IF token.kind = "Table" /\ token.header # <<>>
    THEN <<EnterFrame(token, st, FALSE), EnterFrame(token.header[1], st, TRUE)>>
    ELSE <<EnterFrame(token, st, in_header)>>

\* the frame whose append_elems receives what the innermost iterator yields
Target(frames) == Max({k \in 1..Len(frames) : frames[k].mode = "elem"})

Feed(frames, item) ==
    LET k == Target(frames)
        acc == ae_step([el |-> frames[k].el, prev |-> frames[k].prev,
                        buf |-> frames[k].buf], item)
    IN [frames EXCEPT ![k].el = acc.el, ![k].prev = acc.prev, ![k].buf = acc.buf]

RECURSIVE FeedAll(_, _)
FeedAll(frames, items) ==
    IF items = <<>> THEN frames ELSE FeedAll(Feed(frames, Head(items)), Tail(items))

\* render_inner_join yields AtomicString(delim) before every child but the first
Delim(frame) ==
    IF frame.join /\ frame.i > 1 THEN <<TextItem(AtomicString(NL))>> ELSE <<>>

\* the innermost iterator yields the rendering of the child it has just rendered
Yield(frames, item) == FeedAll(frames, Delim(frames[Len(frames)]) \o <<item>>)

\* what a render function does between the return of append_elems and its own
Close(token, el, aux) ==
    CASE token.kind = "DocumentLazy" -> append_newline_inside(el)
      [] token.kind = "List" -> append_newline_inside(el)
      [] token.kind = "Quote" -> quote_collapse(append_newline_inside(el))
      [] token.kind = "Table" -> SubElement(aux, el)
      [] OTHER -> el

\* the element render_X returns: the rest of inner, the last flush, Close
Returned(frame) ==
    LET acc0 == [el |-> frame.el, prev |-> frame.prev, buf |-> frame.buf]
        acc == IF frame.trail THEN ae_step(acc0, TextItem(Str(NL))) ELSE acc0
    IN Close(frame.token, ae_finish(acc), frame.aux)

Top == rd_frames[Len(rd_frames)]
HasNext(frame) == frame.i < Len(frame.token.children)
NextChild(frame) == frame.token.children[frame.i + 1]
Called == [rd_frames EXCEPT ![Len(rd_frames)].i = @ + 1]
Popped == SubSeq(rd_frames, 1, Len(rd_frames) - 1)

\* r.render(docl): render_document up to its append_elems
RdBegin ==
    /\ rd_pc = "idle"
    /\ rd_pc' = "rendering"
    /\ footnotes' = footnotes \cup rd_doc.footnotes
    /\ rd_frames' = EnterFrames(rd_doc, suppress_ptag_stack, FALSE)
    /\ UNCHANGED <<rd_doc, suppress_ptag_stack, rd_yield, rd_tree, rd_others>>

\* the next child is rendered by a function that returns at once
RdLeaf ==
    /\ rd_pc = "rendering"
    /\ HasNext(Top)
    /\ IsLeaf(NextChild(Top))
    /\ rd_frames' = Yield(Called, RenderLeaf(NextChild(Top)))
    /\ rd_yield' = [token |-> NextChild(Top), item |-> RenderLeaf(NextChild(Top))]
    /\ UNCHANGED <<rd_doc, rd_pc, suppress_ptag_stack, footnotes, rd_tree, rd_others>>

\* the next child is rendered by a function that calls append_elems on the
\* child's own children: render_list and render_quote push first
RdEnter ==
    /\ rd_pc = "rendering"
    /\ HasNext(Top)
    /\ ~IsLeaf(NextChild(Top))
    /\ ~IsLazy(NextChild(Top), suppress_ptag_stack)
    /\ suppress_ptag_stack' = stack_push(suppress_ptag_stack, NextChild(Top))
    /\ rd_frames' = Called \o EnterFrames(NextChild(Top), suppress_ptag_stack, Top.hdr)
    /\ rd_yield' = NoYield
    /\ UNCHANGED <<rd_doc, rd_pc, footnotes, rd_tree, rd_others>>

\* the next child's render returns the lazy map of its children, which the
\* running append_elems goes on to splice
RdEnterLazy ==
    /\ rd_pc = "rendering"
    /\ HasNext(Top)
    /\ ~IsLeaf(NextChild(Top))
    /\ IsLazy(NextChild(Top), suppress_ptag_stack)
    /\ rd_frames' = Append(FeedAll(Called, Delim(Called[Len(Called)])),
                           LazyFrame(NextChild(Top)))
    /\ rd_yield' = [token |-> NextChild(Top), item |-> LazyItem]
    /\ UNCHANGED <<rd_doc, rd_pc, suppress_ptag_stack, footnotes, rd_tree, rd_others>>

\* a lazy map is exhausted
RdLazyEnd ==
    /\ rd_pc = "rendering"
    /\ Top.mode = "lazy"
    /\ ~HasNext(Top)
    /\ rd_frames' = Popped
    /\ rd_yield' = NoYield
    /\ UNCHANGED <<rd_doc, rd_pc, suppress_ptag_stack, footnotes, rd_tree, rd_others>>

\* the children of a render function are exhausted: append_elems returns, the
\* function finishes (render_list and render_quote pop) and returns its
\* element to the iterator that called it; the header row of a table goes
\* into the thead
RdReturn ==
    /\ rd_pc = "rendering"
    /\ Len(rd_frames) > 1
    /\ Top.mode = "elem"
    /\ ~HasNext(Top)
    /\ suppress_ptag_stack' = stack_pop(suppress_ptag_stack, Top.token)
    /\ rd_frames' =
         IF Popped[Len(Popped)].phase = "header"
         THEN [Popped EXCEPT ![Len(Popped)].aux.children[1].children =
                                  Append(@, Returned(Top)),
                             ![Len(Popped)].phase = "body"]
         ELSE Yield(Popped, NodeItem(Returned(Top)))
    /\ rd_yield' = [token |-> Top.token, item |-> NodeItem(Returned(Top))]
    /\ UNCHANGED <<rd_doc, rd_pc, footnotes, rd_tree, rd_others>>

\* render_document returns etree.ElementTree(el)
RdFinish ==
    /\ rd_pc = "rendering"
    /\ Len(rd_frames) = 1
    /\ ~HasNext(Top)
    /\ rd_tree' = Returned(Top)
    /\ rd_yield' = [token |-> Top.token, item |-> NodeItem(Returned(Top))]
    /\ rd_frames' = <<>>
    /\ rd_pc' = "done"
    /\ UNCHANGED <<rd_doc, suppress_ptag_stack, footnotes, rd_others>>

Next == RdBegin \/ RdLeaf \/ RdEnter \/ RdEnterLazy \/ RdLazyEnd \/ RdReturn \/ RdFinish

-----------------------------------------------------------------------------
(* The documents of the model.  ListDocuments: every tree of at most         *)
(* MaxNodes paragraphs, blockquotes, lists and list items below the          *)
(* document.  KindDocuments: one block of every kind the renderer knows,     *)
(* with small contents.                                                      *)

MaxNodes == 4

Para(children) == Token("Paragraph", children)
Quote(children) == Token("Quote", children)
List(loose, start, children) ==
    [Token("List", children) EXCEPT !.loose = loose, !.start = start]
ListItem(children) == Token("ListItem", children)
Document(children) ==
    [Token("DocumentLazy", children) EXCEPT !.root_tag = <<"div">>, !.footnotes = {"fn"}]

PlainPara == Para(<<RawText(<<"a">>)>>)

Starts == {<<>>, <<1>>, <<3>>}

RECURSIVE BlockTrees(_)
RECURSIVE ItemTrees(_)
RECURSIVE BlockForests(_)
RECURSIVE ItemForests(_)
\* the blocks of exactly n tokens (a paragraph and its text count as one)
BlockTrees(n) ==
    IF n = 0 THEN {}
    ELSE (IF n = 1 THEN {PlainPara} ELSE {})
         \cup {Quote(f) : f \in BlockForests(n - 1)}
         \cup {List(l, <<>>, f) : l \in BOOLEAN, f \in ItemForests(n - 1)}
ItemTrees(n) == IF n = 0 THEN {} ELSE {ListItem(f) : f \in BlockForests(n - 1)}
BlockForests(n) ==
    IF n = 0 THEN {<<>>}
    ELSE UNION {{<<t>> \o f : t \in BlockTrees(k), f \in BlockForests(n - k)} : k \in 1..n}
ItemForests(n) ==
    IF n = 0 THEN {<<>>}
    ELSE UNION {{<<t>> \o f : t \in ItemTrees(k), f \in ItemForests(n - k)} : k \in 1..n}

ListDocuments == {Document(f) : f \in UNION {BlockForests(n) : n \in 0..MaxNodes}}

Contents == {<<"a">>, <<"&", "l", "t", ";">>, <<"<", "'", "\"">>}

Inlines ==
    {RawText(c) : c \in Contents}
    \cup {[Token("HTMLSpan", <<>>) EXCEPT !.content = c] : c \in {<<"<", "a", ">">>}}
    \cup {[Token("LineBreak", <<>>) EXCEPT !.soft = b] : b \in BOOLEAN}
    \cup {Token(k, <<RawText(<<"a">>)>>) :
            k \in {"Strong", "Emphasis", "Strikethrough", "EscapeSequence"}}
    \cup {Token("InlineCode", <<RawText(c)>>) : c \in Contents}
    \cup {[Token("Link", <<RawText(<<"a">>)>>) EXCEPT !.target = c, !.title = t] :
            c \in Contents, t \in {<<>>, <<"'">>}}
    \cup {[Token("Image", <<RawText(c)>>) EXCEPT !.src = <<"a">>, !.title = t] :
            c \in Contents, t \in {<<>>, <<"'">>}}
    \cup {[Token("AutoLink", <<RawText(<<"a">>)>>) EXCEPT !.target = c, !.mailto = m] :
            c \in Contents, m \in BOOLEAN}
    \cup {Token("Emphasis", <<Token("EscapeSequence", <<RawText(<<"<", "'", "\"">>)>>)>>)}

Aligns == {<<>>, <<0>>, <<1>>, <<2>>}

Cell(align) == [Token("TableCell", <<RawText(<<"a">>)>>) EXCEPT !.align = align]

Rows ==
    {Token("TableRow", <<Cell(a)>>) : a \in Aligns}
    \cup {Token("TableRow", <<Cell(a), Cell(b)>>) : a \in Aligns, b \in Aligns}

Tables ==
    {[Token("Table", body) EXCEPT !.header = h] :
        h \in {<<>>} \cup {<<r>> : r \in Rows},
        body \in {<<>>} \cup {<<r>> : r \in Rows}}

KindBlocks ==
    {Para(<<x>>) : x \in Inlines}
    \cup {Para(<<x, y>>) : x \in Inlines, y \in Inlines}
    \cup {[Token("Heading", <<x>>) EXCEPT !.level = n] : x \in Inlines, n \in {1, 6}}
    \cup {[Token(k, <<RawText(c)>>) EXCEPT !.language = g] :
            k \in {"BlockCode", "CodeFence"}, c \in Contents, g \in {<<>>, <<"l", "<">>}}
    \cup {Token("ThematicBreak", <<>>)}
    \cup {[Token("HTMLBlock", <<>>) EXCEPT !.content = c] : c \in Contents}
    \cup Tables
    \cup {List(l, st, <<ListItem(<<Para(<<x>>)>>)>>) :
            l \in BOOLEAN, st \in Starts, x \in Inlines}
    \cup {List(l, st, <<ListItem(<<b>>)>>) :
            l \in BOOLEAN, st \in Starts,
            b \in {Token("ThematicBreak", <<>>),
                   [Token("HTMLBlock", <<>>) EXCEPT !.content = <<"<", "a", ">">>]}}

KindDocuments ==
    {Document(<<b>>) : b \in KindBlocks}
    \cup {[Document(<<b>>) EXCEPT !.root_tag = <<"section">>] :
            b \in {PlainPara, Token("ThematicBreak", <<>>)}}

RdInit ==
    /\ rd_doc \in ListDocuments \cup KindDocuments
    /\ rd_pc = "idle"
    /\ suppress_ptag_stack = <<FALSE>>
    /\ footnotes = {}
    /\ rd_frames = <<>>
    /\ rd_yield = NoYield
    /\ rd_tree = None

Init == RdInit /\ AeIdle /\ EsIdle /\ StIdle /\ RnIdle /\ LzIdle /\ PlIdle

Spec == Init /\ [][Next]_vars

-----------------------------------------------------------------------------
(* Statements about one render pass *)

\* the lists and blockquotes among the first k render calls in progress
Pushers(k) == {j \in 1..k : rd_frames[j].token.kind \in {"List", "Quote"}}

\* the nearest list or blockquote around the k-th call is a tight list
Suppressed(k) ==
    /\ Pushers(k - 1) # {}
    /\ LET a == rd_frames[Max(Pushers(k - 1))].token IN a.kind = "List" /\ ~a.loose

\* C1: in every state of a render pass the paragraph-suppression stack holds
\* at least one entry and its bottom entry is false; no pop removes the root
\* entry
C1_StackRooted == Len(suppress_ptag_stack) >= 1 /\ suppress_ptag_stack[1] = FALSE

\* a blockquote that holds a list has been rendered and both have popped
C1_Witness ==
    /\ rd_pc = "rendering"
    /\ rd_yield.token.kind = "Quote"
    /\ \E k \in 1..Len(rd_yield.token.children) :
          rd_yield.token.children[k].kind = "List"
    /\ suppress_ptag_stack = <<FALSE>>

\* C2: a paragraph is rendered as its inline children alone exactly when its
\* nearest enclosing list or blockquote is a tight list, and as a p element
\* otherwise (no such ancestor, a loose list, a blockquote), whatever was
\* rendered before it inside the same list item
C2_ParagraphWrapper ==
    /\ \A k \in 1..Len(rd_frames) :
          rd_frames[k].token.kind = "Paragraph" =>
             IF Suppressed(k) THEN rd_frames[k].mode = "lazy"
             ELSE rd_frames[k].mode = "elem" /\ rd_frames[k].el.tag = "p"
    /\ (rd_pc = "rendering" /\ rd_yield.token.kind = "Paragraph") =>
          IF Suppressed(Len(rd_frames) + 1) THEN rd_yield.item = LazyItem
          ELSE rd_yield.item.t = "node" /\ rd_yield.item.n.tag = "p"

\* a paragraph that follows a nested list or blockquote inside an item of a
\* tight list is being rendered without its wrapper
C2_Witness ==
    /\ rd_pc = "rendering"
    /\ Len(rd_frames) >= 2
    /\ Top.token.kind = "Paragraph"
    /\ Top.mode = "lazy"
    /\ LET item == rd_frames[Len(rd_frames) - 1]
       IN /\ item.token.kind = "ListItem"
          /\ item.i = 2
          /\ item.token.children[1].kind \in {"List", "Quote"}

\* the shallow reading of an element: its text, then the tag of each child
\* followed by the child's tail
Txt(s) == [k \in 1..Len(s) |-> [node |-> FALSE, c |-> s[k]]]
Tag(t) == <<[node |-> TRUE, c |-> t]>>

RECURSIVE ChildrenShape(_)
ChildrenShape(ch) ==
    IF ch = <<>> THEN <<>>
    ELSE Tag(Head(ch).tag) \o Txt(Head(ch).tail.s) \o ChildrenShape(Tail(ch))

Shape(el) == Txt(el.text.s) \o ChildrenShape(el.children)

ItemShape(item) ==
    IF item.t = "text" THEN Txt(item.v.s) ELSE Tag(item.n.tag) \o Txt(item.n.tail.s)

\* what the rendering of token x adds to the shallow reading of the element
\* around it, where paragraphs are unwrapped when suppress holds
RECURSIVE ChildShape(_, _)
RECURSIVE ChildShapes(_, _, _)
ChildShape(x, suppress) ==
    IF IsLeaf(x) THEN ItemShape(RenderLeaf(x))
    ELSE IF x.kind = "EscapeSequence" \/ (x.kind = "Paragraph" /\ suppress)
    THEN ChildShapes(x.children, suppress, <<>>)
    ELSE IF x.kind = "Table" THEN Tag("table")
    ELSE Tag(NewElement(x, FALSE).tag) \o Txt(NewElement(x, FALSE).tail.s)

\* the shapes of the tokens ch, joined by sep
ChildShapes(ch, suppress, sep) ==
    IF ch = <<>> THEN <<>>
    ELSE ChildShape(Head(ch), suppress)
         \o (IF Len(ch) > 1 THEN Txt(sep) ELSE <<>>)
         \o ChildShapes(Tail(ch), suppress, sep)

\* the content the claim gives the li of a list item
ExpectedItem(item, suppress) ==
    IF item.children = <<>> THEN <<>>
    ELSE (IF suppress /\ item.children[1].kind = "Paragraph" THEN <<>> ELSE Txt(NL))
         \o ChildShapes(item.children, suppress, NL)
         \o (IF suppress /\ item.children[Len(item.children)].kind = "Paragraph"
             THEN <<>> ELSE Txt(NL))

\* C3: the li of a list item holds its rendered children joined by newlines,
\* with a newline before and after; in a tight list the leading newline is
\* dropped when the first child is a paragraph and the trailing one when the
\* last child is a paragraph; an item without children gives an empty li
C3_ListItemNewlines ==
    \A k \in 1..Len(rd_frames) :
       rd_frames[k].token.kind = "List" =>
          \A j \in 1..Len(rd_frames[k].el.children) :
             LET li == rd_frames[k].el.children[j]
                 item == rd_frames[k].token.children[j]
             IN /\ li.tag = "li"
                /\ Shape(li) = ExpectedItem(item, ~rd_frames[k].token.loose)
                /\ item.children = <<>> => li.text.none /\ li.children = <<>>

\* an item of a tight list that starts with a paragraph and ends with a
\* blockquote or list has been rendered: no newline before, one after
C3_Witness ==
    /\ rd_pc = "rendering"
    /\ Top.token.kind = "List"
    /\ ~Top.token.loose
    /\ Len(Top.el.children) >= 1
    /\ LET item == Top.token.children[1]
           li == Top.el.children[1]
       IN /\ Len(item.children) = 2
          /\ item.children[1].kind = "Paragraph"
          /\ item.children[2].kind \in {"List", "Quote"}
          /\ Shape(li)[1] = [node |-> FALSE, c |-> "a"]
          /\ Shape(li)[Len(Shape(li))] = [node |-> FALSE, c |-> "\n"]

\* a node with the empty tag, no children and the given text
EmptyTagNode(item, content) ==
    /\ item.t = "node"
    /\ item.n.tag = ""
    /\ item.n.children = <<>>
    /\ ~item.n.text.none
    /\ item.n.text.s = content

RECURSIVE CountTag(_, _)
RECURSIVE CountTags(_, _)
\* the elements with the given tag in the tree below el, el included
CountTag(el, tag) == (IF el.tag = tag THEN 1 ELSE 0) + CountTags(el.children, tag)
CountTags(ch, tag) ==
    IF ch = <<>> THEN 0 ELSE CountTag(Head(ch), tag) + CountTags(Tail(ch), tag)

RECURSIVE CountKind(_, _)
RECURSIVE CountKinds(_, _)
\* the tokens of the given kind in the tree below token, token included
CountKind(token, kind) ==
    (IF token.kind = kind THEN 1 ELSE 0)
    + CountKinds(token.children, kind) + CountKinds(token.header, kind)
CountKinds(ts, kind) ==
    IF ts = <<>> THEN 0 ELSE CountKind(Head(ts), kind) + CountKinds(Tail(ts), kind)

Pushed(k) == suppress_ptag_stack[1 + Cardinality(Pushers(k))]

\* every list and blockquote being rendered has one entry on the stack, a
\* list's entry is NOT loose, and nothing else is on the stack but the root
ListsPushAndPop ==
    /\ Len(suppress_ptag_stack) = 1 + Cardinality(Pushers(Len(rd_frames)))
    /\ \A k \in 1..Len(rd_frames) :
          rd_frames[k].token.kind = "List" => Pushed(k) = ~rd_frames[k].token.loose

StartAttr(token) == {<<"start", ToStr(token.start[1])>>}

\* the element of a list as the claim states it
ListAsStated(token, el) ==
    IF token.start # <<>> /\ token.start[1] # 1
    THEN el.tag = "ol" /\ el.attrib = StartAttr(token)
    ELSE el.tag = "ul" /\ el.attrib = {}

\* the element of a list: ordered when the token has a start number
ListByStart(token, el) ==
    IF token.start # <<>>
    THEN /\ el.tag = "ol"
         /\ el.attrib = IF token.start[1] # 1 THEN StartAttr(token) ELSE {}
    ELSE el.tag = "ul" /\ el.attrib = {}

\* C7 as stated: a list renders to ol with a start attribute when its start
\* number is present and not 1, and to ul otherwise; it pushes NOT loose
\* before its items are rendered and pops afterwards
C7_OrderedOnlyWhenNotOne ==
    /\ ListsPushAndPop
    /\ \A k \in 1..Len(rd_frames) :
          rd_frames[k].token.kind = "List" =>
             ListAsStated(rd_frames[k].token, rd_frames[k].el)
    /\ rd_yield.token.kind = "List" => ListAsStated(rd_yield.token, rd_yield.item.n)

\* C7 amended: a list renders to ol when its start number is present, with a
\* start attribute exactly when that number is not 1, and to ul when it has
\* no start number; it pushes NOT loose before its items are rendered and
\* pops afterwards
C7_OrderedWhenStartPresent ==
    /\ ListsPushAndPop
    /\ \A k \in 1..Len(rd_frames) :
          rd_frames[k].token.kind = "List" =>
             ListByStart(rd_frames[k].token, rd_frames[k].el)
    /\ rd_yield.token.kind = "List" => ListByStart(rd_yield.token, rd_yield.item.n)

\* a list that starts at 1 has been rendered to an ol without a start
\* attribute and has popped its entry
C7_Witness ==
    /\ rd_pc = "rendering"
    /\ rd_yield.token.kind = "List"
    /\ rd_yield.token.start = <<1>>
    /\ rd_yield.item.n.tag = "ol"
    /\ rd_yield.item.n.attrib = {}
    /\ suppress_ptag_stack = <<FALSE>>

AlignValues == {<<"l", "e", "f", "t">>, <<"c", "e", "n", "t", "e", "r">>,
                <<"r", "i", "g", "h", "t">>}

\* C8: a table cell always carries an align attribute, one of left, center
\* and right: left for no alignment, center for 0, right for 1, and a cell
\* with any other alignment is never rendered without the attribute
C8_CellAlwaysAligned ==
    rd_yield.token.kind = "TableCell" =>
       /\ rd_yield.item.t = "node"
       /\ \E v \in AlignValues :
             /\ rd_yield.item.n.attrib = {<<"align", v>>}
             /\ rd_yield.token.align = <<>> => v = <<"l", "e", "f", "t">>
             /\ rd_yield.token.align = <<0>> => v = <<"c", "e", "n", "t", "e", "r">>
             /\ rd_yield.token.align = <<1>> => v = <<"r", "i", "g", "h", "t">>

-----------------------------------------------------------------------------
(* escape_html called on its own, on every text up to MaxLen characters of   *)
(* EsAlphabet, and the result unescaped again.                               *)

MaxLen == 5

EsAlphabet == {"&", ";", "l", "t", "<", "'", "\""}

EsInit ==
    /\ es_raw \in SeqsUpTo(EsAlphabet, MaxLen)
    /\ es_out = <<>>
    /\ es_back = <<>>
    /\ es_pc = "idle"

EsEscape ==
    /\ es_pc = "idle"
    /\ es_out' = escape_html(es_raw)
    /\ es_pc' = "escaped"
    /\ UNCHANGED <<es_raw, es_back, es_others>>

EsUnescape ==
    /\ es_pc = "escaped"
    /\ es_back' = html_unescape(es_out)
    /\ es_pc' = "unescaped"
    /\ UNCHANGED <<es_raw, es_out, es_others>>

EsNext == EsEscape \/ EsUnescape

InitEscape == EsInit /\ AeIdle /\ StIdle /\ RdIdle /\ RnIdle /\ LzIdle /\ PlIdle

SpecEscape == InitEscape /\ [][EsNext]_vars

\* C10 as stated: unescape(escape_html(x)) = x for every text x, also when x
\* itself holds character references.
C10_RoundTrip == es_pc = "unescaped" => es_back = es_raw

\* C10 as amended: unescape(escape_html(x)) is x with its character
\* references resolved, unescape(x); hence x itself whenever unescape leaves x
\* unchanged.
C10_RoundTripOfUnescaped ==
    es_pc = "unescaped" =>
        /\ es_back = html_unescape(es_raw)
        /\ (html_unescape(es_raw) = es_raw => es_back = es_raw)

\* a text that holds a character reference has made the round trip
C10_Witness ==
    /\ es_pc = "unescaped"
    /\ StartsAt(es_raw, 1, <<"&", "l", "t", ";">>)
    /\ es_raw[Len(es_raw)] = "'"
    /\ es_back # es_raw

-----------------------------------------------------------------------------
(* MarkdownInterop._convert_from_elem: stripping the top-level tags from the *)
(* serializer's text.  No tree processor or postprocessor is registered.     *)

doc_tag == <<"d", "i", "v">>

StartTag == <<"<">> \o doc_tag \o <<">">>
EndTag == <<"<", "/">> \o doc_tag \o <<">">>
EmptyTag == <<"<">> \o doc_tag \o <<" ", "/", ">">>

\* the 0-based positions at which sub occurs in s
Occurrences(s, sub) == {i \in 0..Len(s) : StartsAt(s, i + 1, sub)}

Whitespace == {" ", "\t", "\n", "\r", "\f"}

\* str.strip()
RECURSIVE LStrip(_)
LStrip(s) == IF s # <<>> /\ Head(s) \in Whitespace THEN LStrip(Tail(s)) ELSE s
RECURSIVE RStrip(_)
RStrip(s) ==
    IF s # <<>> /\ s[Len(s)] \in Whitespace THEN RStrip(SubSeq(s, 1, Len(s) - 1)) ELSE s
Strip(s) == LStrip(RStrip(s))

\* s.endswith(suffix)
EndsWith(s, suffix) ==
    Len(suffix) <= Len(s) /\ SubSeq(s, Len(s) - Len(suffix) + 1, Len(s)) = suffix

\* s[a:b] with 0 <= a, b <= len(s): empty when b <= a
Slice(s, a, b) == SubSeq(s, a + 1, b)

\* both output.index('<tag>') and output.rindex('</tag>') succeed
TagsFound(output) ==
    Occurrences(output, StartTag) # {} /\ Occurrences(output, EndTag) # {}

\* start = output.index('<%s>' % doc_tag) + len(doc_tag) + 2
StripStart(output) == Min(Occurrences(output, StartTag)) + Len(doc_tag) + 2

\* end = output.rindex('</%s>' % doc_tag)
StripEnd(output) == Max(Occurrences(output, EndTag))

\* the texts the serializer may hand over: the tags of the wrapper and text
StChunks == {StartTag, EndTag, EmptyTag, <<"a">>, <<" ">>}

MaxChunks == 3

RECURSIVE Concat(_)
Concat(q) == IF q = <<>> THEN <<>> ELSE Head(q) \o Concat(Tail(q))

StInit ==
    /\ st_output \in {Concat(q) : q \in SeqsUpTo(StChunks, MaxChunks)}
    /\ st_result = <<>>
    /\ st_pc = "idle"

\* the try block succeeds: output[start:end].strip(), and the last strip
StStrip ==
    /\ st_pc = "idle"
    /\ TagsFound(st_output)
    /\ st_result' =
         Strip(Strip(Slice(st_output, StripStart(st_output), StripEnd(st_output))))
    /\ st_pc' = "returned"
    /\ UNCHANGED <<st_output, st_others>>

\* ValueError, and the stripped output ends with the self-closed wrapper
StEmptyDocument ==
    /\ st_pc = "idle"
    /\ ~TagsFound(st_output)
    /\ EndsWith(Strip(st_output), EmptyTag)
    /\ st_result' = Strip(<<>>)
    /\ st_pc' = "returned"
    /\ UNCHANGED <<st_output, st_others>>

\* ValueError otherwise: 'Markdown failed to strip top-level tags'
StRaise ==
    /\ st_pc = "idle"
    /\ ~TagsFound(st_output)
    /\ ~EndsWith(Strip(st_output), EmptyTag)
    /\ st_pc' = "raised"
    /\ UNCHANGED <<st_output, st_result, st_others>>

StNext == StStrip \/ StEmptyDocument \/ StRaise

InitStrip == StInit /\ AeIdle /\ EsIdle /\ RdIdle /\ RnIdle /\ LzIdle /\ PlIdle

SpecStrip == InitStrip /\ [][StNext]_vars

\* the start tag and a later end tag are both present
StWrapped(output) == TagsFound(output) /\ StripEnd(output) >= StripStart(output)

\* C9: with the start tag and a later end tag present the result is the text
\* between the first start tag and the last end tag (surrounding blanks
\* removed); the output that is only the empty self-closed wrapper gives the
\* empty text; every other output (a tag missing, or the end tag not after the
\* start tag) makes the call fail.
C9_StripContract ==
    st_pc # "idle" =>
        IF StWrapped(st_output)
        THEN /\ st_pc = "returned"
             /\ st_result = Strip(Slice(st_output, StripStart(st_output), StripEnd(st_output)))
        ELSE IF Strip(st_output) = EmptyTag
             THEN st_pc = "returned" /\ st_result = <<>>
             ELSE st_pc = "raised"

-----------------------------------------------------------------------------
(* Document renders: render(self, config, files) of __init__.py, lines       *)
(* 43-53, with its ETreeRenderer and its DocumentLazy.  The values that live *)
(* in modules (block_token, span_token, html) are one record, process, that  *)
(* every render of the process reads and writes.  A value that is a Python   *)
(* object is named by a tuple: NoNode is None, Self(r) the DocumentLazy of   *)
(* render r.  block_tokenizer.tokenize_block and make_tokens belong to       *)
(* mistletoe: their results are records of what they were given and of the   *)
(* module values they read.                                                  *)

MaxRenders == 2

Renders == 1..MaxRenders

Absent == [absent |-> TRUE]

NoNode == <<"None">>
Self(r) == <<"DocumentLazy", r>>

StdlibCharref == <<"html._charref">>
PatchedCharref == <<"&(#[0-9]+;|#[xX][0-9a-fA-F]+;|[^\\t\\n\\f <&#;]{1,32};)">>

\* mistletoe's own registries, and the lists render() hands to DocumentLazy:
\* _block_token_types is block_token._token_types itself (line 6 of
\* __init__.py), my_inline_token_types is a new list (line 34)
DefaultBlockTypes == <<"block_token._token_types">>
DefaultSpanTypes == <<"span_token._token_types">>
PickedSpanTypes(r) == <<"my_inline_token_types", r>>

\* str.splitlines(keepends=True)
RECURSIVE SplitLines(_, _)
SplitLines(text, line) ==
    IF text = <<>> THEN (IF line = <<>> THEN <<>> ELSE <<line>>)
    ELSE IF Head(text) = "\n"
    THEN <<Append(line, "\n")>> \o SplitLines(Tail(text), <<>>)
    ELSE SplitLines(Tail(text), Append(line, Head(text)))

\* DocumentLazy.__init__, lines 82-84: every line ends with a newline
WithNewline(line) ==
    IF line # <<>> /\ line[Len(line)] = "\n" THEN line ELSE line \o NL

\* the argument `lines`: a str or a list of str
TextArg(text) == [str |-> TRUE, text |-> text, list |-> <<>>]
ListArg(list) == [str |-> FALSE, text |-> <<>>, list |-> list]

NormalLines(lines) ==
    LET ls == IF lines.str THEN SplitLines(lines.text, <<>>) ELSE lines.list
    IN [k \in 1..Len(ls) |-> WithNewline(ls[k])]

\* the attributes of a DocumentLazy after __init__; _blocks and children do
\* not exist yet
DocumentLazy(lines, block_token_types, span_token_types, root_tag) ==
    [root_tag |-> root_tag,
     _lines |-> NormalLines(lines),
     block_token_types |-> block_token_types,
     span_token_types |-> span_token_types,
     footnotes |-> {},
     _blocks |-> Absent,
     children |-> Absent]

\* DocumentLazy.__init__ also writes span_token._root_node
init_writes(p) == [p EXCEPT !.span_root_node = NoNode]

\* set_state, lines 94-102: up to the yield
set_state_old(p) == [block |-> p.block_token_types, span |-> p.span_token_types]

set_state_enter(self, id, p) ==
    [p EXCEPT !.block_token_types = self.block_token_types,
              !.span_token_types = self.span_token_types,
              !.block_root_node = Self(id),
              !.span_root_node = Self(id)]

\* set_state, lines 104-108: the finally clause
set_state_exit(old, p) ==
    [p EXCEPT !.block_root_node = NoNode,
              !.span_root_node = NoNode,
              !.block_token_types = old.block,
              !.span_token_types = old.span]

\* block_tokenizer.tokenize_block(self._lines, block_token._token_types)
tokenize_block(lines, token_types) == [lines |-> lines, token_types |-> token_types]

\* block_tokenizer.make_tokens(_blocks): the tokens are built with the span
\* token types and the root node that span_token holds at that moment
make_tokens(blocks, p) ==
    [blocks |-> blocks, token_types |-> p.span_token_types, root |-> p.span_root_node]

\* ETreeRenderer.__init__, lines 146-150
renderer_init(p) == [stdlib_charref |-> p.html_charref]
patch_charref(p) == [p EXCEPT !.html_charref = PatchedCharref]

\* ETreeRenderer.__exit__, line 154
restore_charref(self, p) == [p EXCEPT !.html_charref = self.stdlib_charref]

NoInstance == [root_tag |-> <<>>]
NoRenderer == [stdlib_charref |-> <<>>]
NoOld == [block |-> <<>>, span |-> <<>>]
Unseen == [block_token_types |-> <<>>, span_token_types |-> <<>>,
           root_node |-> <<>>, html_charref |-> <<>>]

RnTexts == {<<"a">>, <<"a", "\n", "b">>}

RnInit ==
    /\ process = [block_token_types |-> DefaultBlockTypes,
                  span_token_types |-> DefaultSpanTypes,
                  block_root_node |-> NoNode,
                  span_root_node |-> NoNode,
                  html_charref |-> StdlibCharref]
    /\ process0 = process
    /\ renderer = [r \in Renders |-> NoRenderer]
    /\ docl = [r \in Renders |-> NoInstance]
    /\ rn_pc = [r \in Renders |-> "new"]
    /\ rn_old = [r \in Renders |-> NoOld]
    /\ rn_seen = [r \in Renders |-> Unseen]
    /\ lz_log = <<>>
    /\ lz_raised = ""

\* with ETreeRenderer() as r:
RnConstruct ==
    \E r \in Renders :
       /\ rn_pc[r] = "new"
       /\ renderer' = [renderer EXCEPT ![r] = renderer_init(process)]
       /\ process' = patch_charref(process)
       /\ rn_pc' = [rn_pc EXCEPT ![r] = "constructed"]
       /\ UNCHANGED <<process0, docl, rn_old, rn_seen, lz_vars, rn_others>>

\* docl = DocumentLazy(preprocessed, _block_token_types, my_inline_token_types, ...)
RnDocument ==
    \E r \in Renders, text \in RnTexts, str \in BOOLEAN :
       /\ rn_pc[r] = "constructed"
       /\ docl' = [docl EXCEPT ![r] =
                     DocumentLazy(IF str THEN TextArg(text) ELSE ListArg(<<text>>),
                                  DefaultBlockTypes, PickedSpanTypes(r), <<"div">>)]
       /\ process' = init_writes(process)
       /\ rn_pc' = [rn_pc EXCEPT ![r] = "lazy"]
       /\ UNCHANGED <<process0, renderer, rn_old, rn_seen, lz_vars, rn_others>>

\* with self.set_state(): of run_block and of run_maketree
RnSetState ==
    \E r \in Renders :
       /\ rn_pc[r] \in {"lazy", "blocked"}
       /\ rn_old' = [rn_old EXCEPT ![r] = set_state_old(process)]
       /\ process' = set_state_enter(docl[r], r, process)
       /\ rn_pc' = [rn_pc EXCEPT ![r] = IF rn_pc[r] = "lazy" THEN "block_state"
                                        ELSE "tree_state"]
       /\ UNCHANGED <<process0, renderer, docl, rn_seen, lz_vars, rn_others>>

\* run_block, line 113
RnTokenizeBlock ==
    \E r \in Renders :
       /\ rn_pc[r] = "block_state"
       /\ docl' = [docl EXCEPT ![r]._blocks =
                     tokenize_block(docl[r]._lines, process.block_token_types)]
       /\ rn_seen' = [rn_seen EXCEPT ![r].block_token_types = process.block_token_types]
       /\ rn_pc' = [rn_pc EXCEPT ![r] = "block_done"]
       /\ UNCHANGED <<process, process0, renderer, rn_old, lz_vars, rn_others>>

\* run_maketree, line 123; in render() run_block has always run before
RnMakeTokens ==
    \E r \in Renders :
       /\ rn_pc[r] = "tree_state"
       /\ docl' = [docl EXCEPT ![r].children = make_tokens(docl[r]._blocks, process)]
       /\ rn_seen' = [rn_seen EXCEPT ![r].span_token_types = process.span_token_types,
                                     ![r].root_node = process.span_root_node]
       /\ rn_pc' = [rn_pc EXCEPT ![r] = "tree_done"]
       /\ UNCHANGED <<process, process0, renderer, rn_old, lz_vars, rn_others>>

\* the finally clause of set_state
RnRestoreState ==
    \E r \in Renders :
       /\ rn_pc[r] \in {"block_done", "tree_done"}
       /\ process' = set_state_exit(rn_old[r], process)
       /\ rn_old' = [rn_old EXCEPT ![r] = NoOld]
       /\ rn_pc' = [rn_pc EXCEPT ![r] = IF rn_pc[r] = "block_done" THEN "blocked"
                                        ELSE "treed"]
       /\ UNCHANGED <<process0, renderer, docl, rn_seen, lz_vars, rn_others>>

\* doc = r.render(docl).getroot(): escape_html reads html._charref
RnRender ==
    \E r \in Renders :
       /\ rn_pc[r] = "treed"
       /\ rn_seen' = [rn_seen EXCEPT ![r].html_charref = process.html_charref]
       /\ rn_pc' = [rn_pc EXCEPT ![r] = "rendered"]
       /\ UNCHANGED <<process, process0, renderer, docl, rn_old, lz_vars, rn_others>>

\* the end of the with block: ETreeRenderer.__exit__
RnExit ==
    \E r \in Renders :
       /\ rn_pc[r] = "rendered"
       /\ process' = restore_charref(renderer[r], process)
       /\ rn_pc' = [rn_pc EXCEPT ![r] = "exited"]
       /\ UNCHANGED <<process0, renderer, docl, rn_old, rn_seen, lz_vars, rn_others>>

RnNext ==
    \/ RnConstruct \/ RnDocument \/ RnSetState \/ RnTokenizeBlock \/ RnMakeTokens
    \/ RnRestoreState \/ RnRender \/ RnExit

InitRenders == RnInit /\ AeIdle /\ EsIdle /\ StIdle /\ RdIdle /\ PlIdle

SpecRenders == InitRenders /\ [][RnNext]_vars

\* C11: a render reads the process-wide values it would read when it runs
\* alone (its own token types and root node inside set_state, the patched
\* character-reference pattern while it renders), under every interleaving
\* with another render, and once every render has finished the process-wide
\* values are those from before any render started
C11_RendersIsolated ==
    /\ \A r \in Renders :
          /\ rn_seen[r].block_token_types \in {<<>>, DefaultBlockTypes}
          /\ rn_seen[r].span_token_types \in {<<>>, PickedSpanTypes(r)}
          /\ rn_seen[r].root_node \in {<<>>, Self(r)}
          /\ rn_seen[r].html_charref \in {<<>>, PatchedCharref}
    /\ (\A r \in Renders : rn_pc[r] = "exited") => process = process0

-----------------------------------------------------------------------------
(* One DocumentLazy on its own: run_block and run_maketree called in any     *)
(* order, each call from its first line to its return or to the exception    *)
(* that leaves it.                                                           *)

MaxCalls == 4

\* self.<name> on an instance: AttributeError when the attribute is not there
GetAttr(value) ==
    IF value = Absent THEN [raised |-> "AttributeError", value |-> Absent]
    ELSE [raised |-> "", value |-> value]

ShouldCallRunBlockFirst == "Exception: Should call run_block first"

\* run_maketree, lines 117-120: the handler runs for a KeyError only; any
\* other exception leaves run_maketree as it is
lookup_blocks(self) ==
    LET got == GetAttr(self._blocks)
    IN IF got.raised = "KeyError"
       THEN [raised |-> ShouldCallRunBlockFirst, value |-> Absent]
       ELSE got

LzTexts == {<<>>, <<"a">>, <<"a", "\n">>, <<"a", "\n", "b">>}

LzLines ==
    {TextArg(t) : t \in LzTexts}
    \cup {ListArg(<<t>>) : t \in LzTexts}
    \cup {ListArg(<<t, u>>) : t \in LzTexts, u \in {<<"b">>}}
    \cup {ListArg(<<>>)}

\* the state after docl = DocumentLazy(lines, block types, span types)
LzInit ==
    /\ process0 = [block_token_types |-> DefaultBlockTypes,
                   span_token_types |-> DefaultSpanTypes,
                   block_root_node |-> NoNode,
                   span_root_node |-> NoNode,
                   html_charref |-> StdlibCharref]
    /\ process = init_writes(process0)
    /\ \E lines \in LzLines, bt \in {DefaultBlockTypes, <<"block_token_types">>} :
          docl = <<DocumentLazy(lines, bt, PickedSpanTypes(1), <<"div">>)>>
    /\ renderer = <<>> /\ rn_pc = <<>> /\ rn_old = <<>> /\ rn_seen = <<>>
    /\ lz_log = <<>>
    /\ lz_raised = ""

\* docl.run_block()
LzRunBlock ==
    /\ Len(lz_log) < MaxCalls
    /\ LET inside == set_state_enter(docl[1], 1, process)
       IN /\ docl' = [docl EXCEPT ![1]._blocks =
                        tokenize_block(docl[1]._lines, inside.block_token_types)]
          /\ process' = set_state_exit(set_state_old(process), inside)
    /\ lz_log' = Append(lz_log, "run_block")
    /\ lz_raised' = ""
    /\ UNCHANGED <<process0, renderer, rn_pc, rn_old, rn_seen, rn_others>>

\* docl.run_maketree() that returns
LzRunMaketree ==
    /\ Len(lz_log) < MaxCalls
    /\ lookup_blocks(docl[1]).raised = ""
    /\ LET inside == set_state_enter(docl[1], 1, process)
       IN /\ docl' = [docl EXCEPT ![1].children =
                        make_tokens(lookup_blocks(docl[1]).value, inside)]
          /\ process' = set_state_exit(set_state_old(process), inside)
    /\ lz_log' = Append(lz_log, "run_maketree")
    /\ lz_raised' = ""
    /\ UNCHANGED <<process0, renderer, rn_pc, rn_old, rn_seen, rn_others>>

\* docl.run_maketree() that is left by an exception before set_state
LzRunMaketreeRaises ==
    /\ Len(lz_log) < MaxCalls
    /\ lookup_blocks(docl[1]).raised # ""
    /\ lz_log' = Append(lz_log, "run_maketree")
    /\ lz_raised' = lookup_blocks(docl[1]).raised
    /\ UNCHANGED <<process, process0, renderer, docl, rn_pc, rn_old, rn_seen, rn_others>>

LzNext == LzRunBlock \/ LzRunMaketree \/ LzRunMaketreeRaises

InitLazy == LzInit /\ AeIdle /\ EsIdle /\ StIdle /\ RdIdle /\ PlIdle

SpecLazy == InitLazy /\ [][LzNext]_vars

\* run_block has been called before the last call of the log
RanBlock == \E k \in 1..(Len(lz_log) - 1) : lz_log[k] = "run_block"

\* the children make_tokens builds for this document from its stored blocks
ChildrenOf(self) ==
    [blocks |-> self._blocks, token_types |-> self.span_token_types, root |-> Self(1)]

\* C12: run_maketree on a DocumentLazy on which run_block was never called
\* fails with the error 'Should call run_block first', without entering
\* set_state or changing the token registries; run_maketree after run_block
\* returns and sets children from the stored blocks
C12_RunBlockFirst ==
    (lz_log # <<>> /\ lz_log[Len(lz_log)] = "run_maketree") =>
       IF RanBlock
       THEN /\ lz_raised = ""
            /\ docl[1].children = ChildrenOf(docl[1])
            /\ process = init_writes(process0)
       ELSE /\ lz_raised = ShouldCallRunBlockFirst
            /\ docl[1].children = Absent
            /\ process = init_writes(process0)

-----------------------------------------------------------------------------
(* The plugin: one CommonMark instance handling on_pre_build and             *)
(* on_post_build events.  A method is named by a one-element tuple, None is  *)
(* the empty tuple.                                                          *)

MaxEvents == 6

\* render(self, config, files) of __init__.py
render == <<"mkdocs_plugin_commonmark.render">>

\* what Page.render may be before the plugin handles its first event
Originals == {<<"Page.render">>, <<"render of another plugin">>}

\* a variant of save_original that saves on every on_pre_build
save_original_always(saved, current) == current

\* on_pre_build, lines 63-64: `not self.original_render` holds for None
save_original(saved, current) == IF saved = <<>> THEN current ELSE saved

\* the state after CommonMark(): original_render is the class attribute None
PlInit ==
    /\ Page_render \in Originals
    /\ pl_original = Page_render
    /\ original_render = <<>>
    /\ pl_log = <<>>

\* on_pre_build(self, config)
on_pre_build ==
    /\ Len(pl_log) < MaxEvents
    /\ original_render' = save_original(original_render, Page_render)
    /\ Page_render' = render
    /\ pl_log' = Append(pl_log, "on_pre_build")
    /\ UNCHANGED <<pl_original, pl_others>>

\* on_post_build(self, config)
on_post_build ==
    /\ Len(pl_log) < MaxEvents
    /\ Page_render' = original_render
    /\ pl_log' = Append(pl_log, "on_post_build")
    /\ UNCHANGED <<original_render, pl_original, pl_others>>

PlNext == on_pre_build \/ on_post_build

InitPlugin == PlInit /\ AeIdle /\ EsIdle /\ StIdle /\ RdIdle /\ RnIdle /\ LzIdle

SpecPlugin == InitPlugin /\ [][PlNext]_vars

\* every on_post_build of the log has an on_pre_build before it
PreBuildFirst == pl_log # <<>> /\ pl_log[1] = "on_pre_build"

\* C13: in every sequence of events in which each on_post_build follows at
\* least one on_pre_build, Page.render is the plugin's render after each
\* on_pre_build and the method Page had before the first on_pre_build after
\* each on_post_build, and the saved original is that method, never the
\* plugin's render
C13_InstallRestore ==
    PreBuildFirst =>
       /\ pl_log[Len(pl_log)] = "on_pre_build" => Page_render = render
       /\ pl_log[Len(pl_log)] = "on_post_build" => Page_render = pl_original
       /\ original_render = pl_original
       /\ original_render # render

\* two on_pre_build in a row, then a second build cycle, have been handled
\* and Page.render is the original method again
C13_Witness ==
    /\ pl_log = <<"on_pre_build", "on_pre_build", "on_post_build",
                  "on_pre_build", "on_post_build">>
    /\ Page_render = pl_original
    /\ original_render = pl_original

=============================================================================
